---- MODULE Spec2Model ----
(***************************************************************************)
(* Task Manager with Time Analytics (src/FSD_project.py).                  *)
(*                                                                         *)
(* State: the two SQLite tables (tasks, work_sessions; a row's id is its   *)
(* position, AUTOINCREMENT without deletes), the Pomodoro session state    *)
(* (pom_task; pom_start, here pom_start_at), the wall clock, and last,     *)
(* the outcome of the last handler.  One action per button handler of the  *)
(* Streamlit page (Spec); the engine functions (complete, recur_create,    *)
(* pom_start, pom_stop, predict_time, daily_scores) are operators          *)
(* translated from their code, and SpecEngine calls them directly, with    *)
(* any argument, on a table that already holds rows.  A handler runs at    *)
(* one instant of a clock that does not go backwards.                      *)
(*                                                                         *)
(* Representation.                                                         *)
(*  - An optional value (Python None / SQL NULL) is the empty sequence,    *)
(*    a present value v is <<v>>.                                          *)
(*  - A text typed into a form is a sequence of characters, " " being      *)
(*    whitespace, so that str.strip() does something.                      *)
(*  - The clock counts units of 1/UnitsPerSec second since                 *)
(*    2024-01-01T00:00:00 local time.  A datetime is the record of its     *)
(*    calendar fields [y, mo, d, sec, sub] (sec = second of the day, sub   *)
(*    = the sub-second part); an ISO-8601 text with second precision is    *)
(*    [k |-> "iso", y, mo, d, sec].  Converting between the clock, a       *)
(*    datetime and a text goes through the proleptic calendar              *)
(*    (Ymd2Ord / Ord2Ymd), as datetime does.                               *)
(*  - duration_minutes (a REAL number of minutes) is held exactly, as a    *)
(*    whole number of clock units: UnitsPerMin units are one minute.       *)
(*  - A value rounded to one decimal (round(x, 1)) is held in tenths.      *)
(***************************************************************************)
EXTENDS Integers, Sequences, FiniteSets, TLC

VARIABLES tasks, sessions, pom_task, pom_start_at, clock, steps_left, last

vars == <<tasks, sessions, pom_task, pom_start_at, clock, steps_left, last>>

\* ------------------------------------------------------------ bounds
MaxSteps == 5
MaxCalls == 3
UnitsPerSec == 2

UnitsPerMin == 60 * UnitsPerSec
UnitsPerDay == 24 * 60 * 60 * UnitsPerSec

\* ------------------------------------------------------------ program constants
DefaultMinutes == 30
FullDayMinutes == 240
ScoreCap == 120

\* ------------------------------------------------------------ optional values
None == << >>
Some(x) == <<x>>

\* ------------------------------------------------------------ calendar (datetime)
Years == 2024 .. 2027

IsLeap(y) ==
    (y % 4 = 0 /\ y % 100 # 0) \/ y % 400 = 0

DaysInMonth(y, m) ==
    IF m = 2 THEN (IF IsLeap(y) THEN 29 ELSE 28)
    ELSE IF m \in {4, 6, 9, 11} THEN 30 ELSE 31

\* the days of the year before month m
DaysBeforeMonth(y, m) ==
    <<0, 31, 59, 90, 120, 151, 181, 212, 243, 273, 304, 334>>[m]
        + (IF m > 2 /\ IsLeap(y) THEN 1 ELSE 0)

\* the days before January 1st of year y, counted from year 1
DaysBeforeYear1(y) ==
    (y - 1) * 365 + (y - 1) \div 4 - (y - 1) \div 100 + (y - 1) \div 400

\* the same, counted from the epoch
DaysBeforeYear(y) == DaysBeforeYear1(y) - DaysBeforeYear1(2024)

\* date.toordinal(), counted from 2024-01-01 = 0
Ymd2Ord(y, m, d) ==
    DaysBeforeYear(y) + DaysBeforeMonth(y, m) + (d - 1)

\* date.fromordinal()
Ord2Ymd(n) ==
    LET y == CHOOSE yy \in Years : DaysBeforeYear(yy) <= n /\ n < DaysBeforeYear(yy + 1)
        r == n - DaysBeforeYear(y)
        m == CHOOSE mm \in 1 .. 12 :
                 DaysBeforeMonth(y, mm) <= r /\ r < DaysBeforeMonth(y, mm) + DaysInMonth(y, mm)
    IN  [y |-> y, mo |-> m, d |-> r - DaysBeforeMonth(y, m) + 1]

\* a datetime as the number of clock units since the epoch
ToUnits(t) ==
    (Ymd2Ord(t.y, t.mo, t.d) * 24 * 60 * 60 + t.sec) * UnitsPerSec + t.sub

\* the datetime that is u clock units after the epoch
FromUnits(u) ==
    LET ymd == Ord2Ymd(u \div UnitsPerDay)
        r == u % UnitsPerDay
    IN  [y |-> ymd.y, mo |-> ymd.mo, d |-> ymd.d,
         sec |-> r \div UnitsPerSec, sub |-> r % UnitsPerSec]

\* datetime.now()
datetime_now == FromUnits(clock)

\* datetime + timedelta(days = n)
plus_days(t, n) ==
    LET ymd == Ord2Ymd(Ymd2Ord(t.y, t.mo, t.d) + n)
    IN  [t EXCEPT !.y = ymd.y, !.mo = ymd.mo, !.d = ymd.d]

\* datetime.isoformat(): the text of a datetime; the sub-second part is
\* dropped (timespec="seconds", or a datetime that has none)
isoformat(t) ==
    [k |-> "iso", y |-> t.y, mo |-> t.mo, d |-> t.d, sec |-> t.sec]

\* texts that are not ISO timestamps
BadText == [k |-> "bad", y |-> 0, mo |-> 0, d |-> 0, sec |-> 0]
EmptyText == [k |-> "empty", y |-> 0, mo |-> 0, d |-> 0, sec |-> 0]

\* datetime.fromisoformat(): the datetime, or None where it raises ValueError
fromisoformat(s) ==
    IF s.k = "iso"
    THEN Some([y |-> s.y, mo |-> s.mo, d |-> s.d, sec |-> s.sec, sub |-> 0])
    ELSE None

now_iso == isoformat(datetime_now)

\* ------------------------------------------------------------ str.strip()
RECURSIVE lstrip(_)
lstrip(s) ==
    IF s # << >> /\ Head(s) = " " THEN lstrip(Tail(s)) ELSE s

RECURSIVE rstrip(_)
rstrip(s) ==
    IF s # << >> /\ s[Len(s)] = " " THEN rstrip(SubSeq(s, 1, Len(s) - 1)) ELSE s

strip(s) == rstrip(lstrip(s))

\* ------------------------------------------------------------ exact arithmetic
RECURSIVE Gcd(_, _)
Gcd(a, b) ==
    IF b = 0 THEN a ELSE Gcd(b, a % b)

\* a non-negative rational n/d in lowest terms
Rat(n, d) ==
    LET g == Gcd(n, d) IN [n |-> n \div g, d |-> d \div g]

RatAdd(a, b) ==
    LET l == (a.d \div Gcd(a.d, b.d)) * b.d
    IN  Rat(a.n * (l \div a.d) + b.n * (l \div b.d), l)

\* round(x, 1) of x = r.n / r.d >= 0, in tenths; a tie goes to the even digit
round1(r) ==
    LET n == 10 * r.n
        q == n \div r.d
        m == n % r.d
    IN  IF 2 * m < r.d THEN q
        ELSE IF 2 * m > r.d THEN q + 1
        ELSE IF q % 2 = 0 THEN q ELSE q + 1

RECURSIVE SumOver(_, _)
SumOver(S, f) ==
    IF S = {} THEN 0
    ELSE LET x == CHOOSE x \in S : TRUE IN f[x] + SumOver(S \ {x}, f)

RECURSIVE RatSumOver(_, _)
RatSumOver(S, f) ==
    IF S = {} THEN Rat(0, 1)
    ELSE LET x == CHOOSE x \in S : TRUE IN RatAdd(f[x], RatSumOver(S \ {x}, f))

\* ------------------------------------------------------------ queries
\* a pending list that shows every task
get_pending_m == 1 .. Len(tasks)

\* the ids of the rows of status Pending / Completed
get_pending == {i \in 1 .. Len(tasks) : tasks[i].status = "Pending"}

get_completed == {i \in 1 .. Len(tasks) : tasks[i].status = "Completed"}

\* work_sessions LEFT JOIN tasks: a session whose task_id matches no task
\* gets a NULL category
get_sessions ==
    [i \in 1 .. Len(sessions) |->
        [task_id |-> sessions[i].task_id,
         start_time |-> sessions[i].start_time,
         end_time |-> sessions[i].end_time,
         duration_minutes |-> sessions[i].duration_minutes,
         category |-> IF sessions[i].task_id \in 1 .. Len(tasks)
                      THEN Some(tasks[sessions[i].task_id].category)
                      ELSE None]]

\* groupby("category")["duration_minutes"].mean().to_dict(): the mean, in
\* minutes, per category; groupby drops the rows whose key is NULL
avg_time_category ==
    LET df == get_sessions
        rows(c) == {i \in 1 .. Len(df) : df[i].category = Some(c)}
        keys == {df[i].category[1] : i \in {j \in 1 .. Len(df) : df[j].category # None}}
    IN  [c \in keys |->
            Rat(SumOver(rows(c), [i \in rows(c) |-> df[i].duration_minutes]),
                Cardinality(rows(c)) * UnitsPerMin)]

\* a predict_time that falls back on the mean of all sessions
predict_time_m(cat) ==
    LET avg == avg_time_category
        df == get_sessions
        all == {i \in 1 .. Len(df) : df[i].category # None}
    IN  IF cat \in DOMAIN avg THEN round1(avg[cat])
        ELSE IF DOMAIN avg # {}
             THEN round1(Rat(SumOver(all, [i \in all |-> df[i].duration_minutes]),
                             Cardinality(all) * UnitsPerMin))
        ELSE 10 * DefaultMinutes

\* predict_time(cat), in tenths of a minute
predict_time(cat) ==
    LET avg == avg_time_category
        tot == RatSumOver(DOMAIN avg, avg)
    IN  IF cat \in DOMAIN avg THEN round1(avg[cat])
        ELSE IF DOMAIN avg # {} THEN round1(Rat(tot.n, tot.d * Cardinality(DOMAIN avg)))
        ELSE 10 * DefaultMinutes

\* pd.to_datetime(start_time).dt.date
date_of(s) == [y |-> s.y, mo |-> s.mo, d |-> s.d]

DateBefore(a, b) ==
    \/ a.y < b.y
    \/ a.y = b.y /\ a.mo < b.mo
    \/ a.y = b.y /\ a.mo = b.mo /\ a.d < b.d

\* sort_values("date", ascending=False) of one row per date
RECURSIVE sort_desc(_)
sort_desc(D) ==
    IF D = {} THEN << >>
    ELSE LET top == CHOOSE x \in D : \A z \in D : ~DateBefore(x, z)
         IN  <<top>> \o sort_desc(D \ {top})

\* a score without its cap
score_of_m(u) ==
    round1(Rat(u * 100, UnitsPerMin * FullDayMinutes))

\* (minutes / 240 * 100).clip(upper=120).round(1), in tenths; u in clock units
score_of(u) ==
    LET raw == Rat(u * 100, UnitsPerMin * FullDayMinutes)
    IN  round1(IF raw.n > ScoreCap * raw.d THEN Rat(ScoreCap, 1) ELSE raw)

\* daily_scores(): one row per date of start_time, most recent first
daily_scores ==
    LET s == get_sessions
        on(dd) == {i \in 1 .. Len(s) : date_of(s[i].start_time) = dd}
        total(dd) == SumOver(on(dd), [i \in on(dd) |-> s[i].duration_minutes])
        order == sort_desc({date_of(s[i].start_time) : i \in 1 .. Len(s)})
    IN  [k \in 1 .. Len(order) |->
            [date |-> order[k],
             duration_minutes |-> total(order[k]),
             score |-> score_of(total(order[k]))]]

\* ------------------------------------------------------------ engine
\* what the last handler was, with its arguments, the timer it found
\* (prev) and how it ended (err = "" when it returned)
Did(op, id, mins, err) ==
    [op |-> op, id |-> id, mins |-> mins, err |-> err, prev |-> pom_task]

\* a week taken for a day
recur_delta_m(type) ==
    IF type = "Daily" THEN 1 ELSE IF type = "Weekly" THEN 1 ELSE 0

\* the timedelta recur_create adds to the due date, in days
recur_delta(type) ==
    IF type = "Daily" THEN 1 ELSE IF type = "Weekly" THEN 7 ELSE 0

\* INSERT INTO tasks(...) of recur_create: the table ts with the successor
\* of old, due at the datetime new
insert_successor(ts, old, type, new) ==
    Append(ts,
        [id |-> Len(ts) + 1,
         title |-> old.title,
         description |-> old.description,
         category |-> old.category,
         priority |-> old.priority,
         status |-> "Pending",
         created_at |-> now_iso,
         due_at |-> Some(isoformat(new)),
         completed_at |-> None,
         predicted_minutes |-> old.predicted_minutes,
         recurrence |-> type])

\* a recur_create that counts from today when the due date cannot be read
recur_create_m(ts, old, type) ==
    LET dt_old == IF old.due_at = None THEN None ELSE fromisoformat(old.due_at[1])
        base == IF dt_old = None THEN datetime_now ELSE dt_old[1]
    IN  insert_successor(ts, old, type, plus_days(base, recur_delta(type)))

\* recur_create(old, type): the tasks table after it, from the table ts
recur_create(ts, old, type) ==
    IF old.due_at = None \/ old.due_at[1].k = "empty" THEN ts
    ELSE LET dt_old == fromisoformat(old.due_at[1])
         IN  IF dt_old = None THEN ts
             ELSE insert_successor(ts, old, type,
                      plus_days(dt_old[1], recur_delta(type)))

\* an UPDATE that sets the status alone
mark_completed_m(ts, task_id) ==
    [ts EXCEPT ![task_id].status = "Completed"]

\* UPDATE tasks SET completed_at=?, status='Completed' WHERE id=?
mark_completed(ts, task_id) ==
    [ts EXCEPT ![task_id].completed_at = Some(now_iso),
               ![task_id].status = "Completed"]

\* a test of mins that lets a negative number through
logs_time_m(mins) ==
    mins # None /\ mins[1] # 0

\* "if mins and mins>0": mins is None or a number of minutes
logs_time(mins) ==
    mins # None /\ mins[1] # 0 /\ mins[1] > 0

\* a complete that logs the time before it looks the task up
complete_missing_m(task_id, mins) ==
    /\ UNCHANGED tasks
    /\ sessions' =
         IF mins # None /\ mins[1] > 0
         THEN Append(sessions,
                [task_id |-> task_id,
                 start_time |-> now_iso,
                 end_time |-> now_iso,
                 duration_minutes |-> mins[1] * UnitsPerMin])
         ELSE sessions
    /\ last' = Did("complete", task_id, mins, "IndexError")

\* complete(task_id, mins) when no row has this id: .iloc[0] of the empty
\* frame raises IndexError before anything is written
complete_missing(task_id, mins) ==
    /\ UNCHANGED <<tasks, sessions>>
    /\ last' = Did("complete", task_id, mins, "IndexError")

\* complete(task_id, mins) on the row of this id
complete_found(task_id, mins) ==
    LET row == tasks[task_id]
        done == mark_completed(tasks, task_id)
    IN  /\ sessions' =
             IF logs_time(mins)
             THEN Append(sessions,
                    [task_id |-> task_id,
                     start_time |-> now_iso,
                     end_time |-> now_iso,
                     duration_minutes |-> mins[1] * UnitsPerMin])
             ELSE sessions
        /\ tasks' =
             IF row.recurrence # "None"
             THEN recur_create(done, row, row.recurrence)
             ELSE done
        /\ last' = Did("complete", task_id, mins, "")

\* complete(task_id, mins)
complete(task_id, mins) ==
    /\ IF task_id \in 1 .. Len(tasks)
       THEN complete_found(task_id, mins)
       ELSE complete_missing(task_id, mins)
    /\ UNCHANGED <<pom_task, pom_start_at, clock>>

\* a pom_start that refuses to replace a running timer
pom_start_m(id) ==
    /\ IF pom_task # None
       THEN /\ UNCHANGED <<pom_task, pom_start_at>>
            /\ last' = Did("pom_start", id, None, "ConflictError")
       ELSE /\ pom_task' = Some(id)
            /\ pom_start_at' = Some(now_iso)
            /\ last' = Did("pom_start", id, None, "")
    /\ UNCHANGED <<tasks, sessions, clock>>

\* pom_start(id)
pom_start(id) ==
    /\ pom_task' = Some(id)
    /\ pom_start_at' = Some(now_iso)
    /\ last' = Did("pom_start", id, None, "")
    /\ UNCHANGED <<tasks, sessions, clock>>

\* the elapsed time without its floor of one minute
elapsed_minutes_m(s, e) ==
    ToUnits(e) - ToUnits(s)

\* max(1, (e-s).total_seconds()/60), in clock units
elapsed_minutes(s, e) ==
    IF ToUnits(e) - ToUnits(s) > UnitsPerMin
    THEN ToUnits(e) - ToUnits(s) ELSE UnitsPerMin

\* pom_stop(save)
pom_stop(save) ==
    LET id == pom_task
        start == pom_start_at
    IN  /\ pom_task' = None
        /\ pom_start_at' = None
        /\ IF ~(save /\ id # None /\ id[1] # 0 /\ start # None)
           THEN UNCHANGED sessions
           ELSE LET s == fromisoformat(start[1])[1]
                    e == datetime_now
                IN  sessions' = Append(sessions,
                        [task_id |-> id[1],
                         start_time |-> start[1],
                         end_time |-> isoformat(e),
                         duration_minutes |-> elapsed_minutes(s, e)])
        /\ last' = Did(IF save THEN "pom_stop_save" ELSE "pom_stop_cancel",
                       IF id = None THEN 0 ELSE id[1], None, "")
        /\ UNCHANGED <<tasks, clock>>

\* ------------------------------------------------------------ page inputs
\* the "Add Task" form as filled in: Title, Description, Priority, Category,
\* Due Date, Due Time (second of the day), Recurrence.  Texts come padded,
\* blank and plain; dates sit at the end of a month and of a year.
Forms ==
    { [title |-> <<"T">>, desc |-> <<"d", " ">>, priority |-> "High",
       cat |-> <<"W">>, d |-> [y |-> 2024, mo |-> 2, d |-> 28],
       t |-> 17 * 3600, rec |-> "Daily"],
      [title |-> <<" ", "T">>, desc |-> << >>, priority |-> "Low",
       cat |-> <<" ", "C">>, d |-> [y |-> 2024, mo |-> 12, d |-> 29],
       t |-> 9 * 3600 + 30 * 60, rec |-> "Weekly"],
      [title |-> <<"U">>, desc |-> <<"d">>, priority |-> "Medium",
       cat |-> <<" ">>, d |-> [y |-> 2024, mo |-> 12, d |-> 31],
       t |-> 17 * 3600, rec |-> "None"],
      [title |-> <<" ">>, desc |-> <<"d">>, priority |-> "High",
       cat |-> <<"W">>, d |-> [y |-> 2024, mo |-> 2, d |-> 28],
       t |-> 17 * 3600, rec |-> "Daily"] }

\* the values of the "Log Minutes" number input (min_value 0.0)
LogMinutes == {0, 60, 480}

\* how far the wall clock moves between two interactions
TickSteps == {90 * UnitsPerSec + 1}

\* the page is first opened on 2024-02-28 at 23:59:00
Clock0 ==
    ToUnits([y |-> 2024, mo |-> 2, d |-> 28, sec |-> 23 * 3600 + 59 * 60, sub |-> 0])

\* ------------------------------------------------------------ handlers
\* one interaction; the model follows a bounded number of them
Step ==
    steps_left > 0 /\ steps_left' = steps_left - 1

\* "Add Task": the form's submit button
AddTask ==
    \E f \in Forms :
        LET pred == IF strip(f.cat) # << >> THEN predict_time(f.cat)
                    ELSE 10 * DefaultMinutes
        IN  /\ Step
            /\ IF strip(f.title) = << >>
               THEN /\ UNCHANGED tasks
                    /\ last' = Did("add", 0, None, "Task title required")
               ELSE /\ tasks' = Append(tasks,
                        [id |-> Len(tasks) + 1,
                         title |-> strip(f.title),
                         description |-> IF f.desc # << >> THEN strip(f.desc) ELSE << >>,
                         category |-> strip(f.cat),
                         priority |-> f.priority,
                         status |-> "Pending",
                         created_at |-> now_iso,
                         due_at |-> Some(isoformat(
                             [y |-> f.d.y, mo |-> f.d.mo, d |-> f.d.d,
                              sec |-> f.t, sub |-> 0])),
                         completed_at |-> None,
                         predicted_minutes |-> pred,
                         recurrence |-> f.rec])
                    /\ last' = Did("add", Len(tasks) + 1, None, "")
            /\ UNCHANGED <<sessions, pom_task, pom_start_at, clock>>

\* "Mark Completed", a button of each pending task
MarkCompleted ==
    \E id \in get_pending : Step /\ complete(id, None)

\* "Save Time", a button of each pending task: acts only when mins > 0
SaveTime ==
    \E id \in get_pending, mins \in LogMinutes :
        /\ Step
        /\ IF mins > 0
           THEN complete(id, Some(mins))
           ELSE /\ last' = Did("save_time", id, Some(mins), "")
                /\ UNCHANGED <<tasks, sessions, pom_task, pom_start_at, clock>>

\* "Start Pomodoro", a button of each pending task
StartPomodoro ==
    \E id \in get_pending : Step /\ pom_start(id)

\* the Pomodoro tab shows its two buttons only while a timer runs
timer_shown ==
    pom_task # None /\ pom_task[1] # 0 /\ pom_start_at # None

\* "Stop & Save"
StopAndSave ==
    timer_shown /\ Step /\ pom_stop(TRUE)

\* "Cancel"
Cancel ==
    timer_shown /\ Step /\ pom_stop(FALSE)

\* time passes between two interactions
Tick ==
    \E step \in TickSteps :
        /\ Step
        /\ clock' = clock + step
        /\ last' = Did("tick", 0, None, "")
        /\ UNCHANGED <<tasks, sessions, pom_task, pom_start_at>>

\* ------------------------------------------------------------ the page
\* a fresh database file and a fresh browser session
Init ==
    /\ tasks = << >>
    /\ sessions = << >>
    /\ pom_task = None
    /\ pom_start_at = None
    /\ clock = Clock0
    /\ steps_left = MaxSteps
    /\ last = Did("init", 0, None, "")

Next ==
    \/ AddTask
    \/ MarkCompleted
    \/ SaveTime
    \/ StartPomodoro
    \/ StopAndSave
    \/ Cancel
    \/ Tick

Spec == Init /\ [][Next]_vars

\* ------------------------------------------------------------ the engine, called directly
\* Rows the tasks table may already hold when the program opens it (CREATE
\* TABLE IF NOT EXISTS keeps an existing file; due_at is a nullable TEXT
\* column): a recurring task with no due date, with an empty one, with one
\* that is no ISO timestamp, and well-formed rows.
LegacyRow(id, due, rec) ==
    [id |-> id,
     title |-> <<"L">>,
     description |-> << >>,
     category |-> <<"W">>,
     priority |-> "Medium",
     status |-> "Pending",
     created_at |-> isoformat(FromUnits(0)),
     due_at |-> due,
     completed_at |-> None,
     predicted_minutes |-> 10 * DefaultMinutes,
     recurrence |-> rec]

GoodDue ==
    Some(isoformat([y |-> 2024, mo |-> 2, d |-> 28, sec |-> 17 * 3600, sub |-> 0]))

LegacyStores ==
    { <<LegacyRow(1, None, "Daily"), LegacyRow(2, GoodDue, "Daily")>>,
      <<LegacyRow(1, Some(BadText), "Weekly")>>,
      <<LegacyRow(1, Some(EmptyText), "Daily"), LegacyRow(2, GoodDue, "None")>> }

\* the arguments complete() is given for mins: absent, zero, negative, positive
CallMinutes == {None, Some(0), Some(0 - 5), Some(60)}

\* complete(task_id, mins) with any task_id, also one that names no row
CallComplete ==
    \E id \in 1 .. Len(tasks) + 1, mins \in CallMinutes : Step /\ complete(id, mins)

\* pom_start(id) with any id
CallPomStart ==
    \E id \in 1 .. Len(tasks) + 1 : Step /\ pom_start(id)

\* pom_stop(save), whether or not a timer runs
CallPomStop ==
    \E save \in BOOLEAN : Step /\ pom_stop(save)

InitEngine ==
    /\ tasks \in LegacyStores
    /\ sessions = << >>
    /\ pom_task = None
    /\ pom_start_at = None
    /\ clock = Clock0
    /\ steps_left = MaxCalls
    /\ last = Did("init", 0, None, "")

NextEngine ==
    \/ CallComplete
    \/ CallPomStart
    \/ CallPomStop
    \/ AddTask
    \/ Tick

SpecEngine == InitEngine /\ [][NextEngine]_vars

\* ------------------------------------------------------------ properties
ValidDue(due) == due # None /\ due[1].k = "iso"

DayNumber(x) == Ymd2Ord(x.y, x.mo, x.d)

IsCalendarDate(x) ==
    x.mo \in 1 .. 12 /\ x.d \in 1 .. DaysInMonth(x.y, x.mo)

IsoDate(y, mo, d, sec) == [k |-> "iso", y |-> y, mo |-> mo, d |-> d, sec |-> sec]

\* C1 as stated: pom_start called while a timer is active fails with a
\* ConflictError and leaves the timer (task and start time) as it was.
C1_SecondStartConflicts ==
    [][(last'.op = "pom_start" /\ pom_task # None) =>
          /\ last'.err = "ConflictError"
          /\ pom_task' = pom_task
          /\ pom_start_at' = pom_start_at]_vars

\* C1 as amended: pom_start never fails; called while a timer is active it
\* replaces the timer by {the new task, now}, and the timer it replaces
\* leaves no work session.
C1_StartReplacesTimer ==
    [][(last'.op = "pom_start" /\ pom_task # None) =>
          /\ last'.err = ""
          /\ pom_task' = Some(last'.id)
          /\ pom_start_at' = Some(now_iso)
          /\ sessions' = sessions]_vars

\* a timer for one task has been replaced by a timer for another
C1_SecondStartSeen ==
    /\ last.op = "pom_start"
    /\ last.prev # None
    /\ last.prev # Some(last.id)
    /\ pom_task = Some(last.id)

\* C2: completing a Daily/Weekly task with a valid due_at inserts exactly one
\* task, due 1 day / 7 days after the completed task's due_at at the same
\* time of day, Pending, without completed_at, with the completed task's
\* title, description, category, priority, predicted_minutes and recurrence;
\* completing a task of recurrence None inserts none.
C2_RecurrenceSuccessor ==
    [][(last'.op = "complete" /\ last'.err = "") =>
          LET old == tasks[last'.id]
              new == tasks'[Len(tasks')]
          IN  /\ \A i \in 1 .. Len(tasks) : i # last'.id => tasks'[i] = tasks[i]
              /\ old.recurrence = "None" => Len(tasks') = Len(tasks)
              /\ (old.recurrence \in {"Daily", "Weekly"} /\ ValidDue(old.due_at)) =>
                    /\ Len(tasks') = Len(tasks) + 1
                    /\ ValidDue(new.due_at)
                    /\ IsCalendarDate(new.due_at[1])
                    /\ new.due_at[1].sec = old.due_at[1].sec
                    /\ DayNumber(new.due_at[1]) = DayNumber(old.due_at[1])
                          + (IF old.recurrence = "Daily" THEN 1 ELSE 7)
                    /\ old.due_at[1] = IsoDate(2024, 2, 28, 17 * 3600)
                          => new.due_at[1] = IsoDate(2024, 2, 29, 17 * 3600)
                    /\ old.due_at[1] = IsoDate(2024, 12, 29, 9 * 3600 + 30 * 60)
                          => new.due_at[1] = IsoDate(2025, 1, 5, 9 * 3600 + 30 * 60)
                    /\ new.status = "Pending"
                    /\ new.completed_at = None
                    /\ new.title = old.title
                    /\ new.description = old.description
                    /\ new.category = old.category
                    /\ new.priority = old.priority
                    /\ new.predicted_minutes = old.predicted_minutes
                    /\ new.recurrence = old.recurrence]_vars

\* a Weekly task due on 2024-12-29 was completed and its successor is due
\* in the next year
C2_WeeklySuccessorSeen ==
    /\ last.op = "complete"
    /\ last.err = ""
    /\ tasks[last.id].recurrence = "Weekly"
    /\ tasks[last.id].due_at = Some(IsoDate(2024, 12, 29, 9 * 3600 + 30 * 60))
    /\ tasks[Len(tasks)].due_at = Some(IsoDate(2025, 1, 5, 9 * 3600 + 30 * 60))
    /\ tasks[Len(tasks)].status = "Pending"

\* C3: every task is Pending or Completed, and has a completed_at exactly
\* when it is Completed (successors of recurring tasks included).
C3_StatusAndCompletedAt ==
    \A i \in 1 .. Len(tasks) :
        /\ tasks[i].status \in {"Pending", "Completed"}
        /\ (tasks[i].completed_at # None) <=> (tasks[i].status = "Completed")

\* a completed recurring task next to its pending successor
C3_CompletedWithSuccessorSeen ==
    /\ last.op = "complete"
    /\ last.err = ""
    /\ Len(tasks) > last.id
    /\ tasks[last.id].status = "Completed"
    /\ tasks[last.id].completed_at = Some(now_iso)
    /\ tasks[Len(tasks)].status = "Pending"
    /\ tasks[Len(tasks)].title = tasks[last.id].title

\* C4: a Completed task stays Completed with the completed_at it got, and
\* complete is not run on it again (so it spawns no further successor).
C4_CompletedIsTerminal ==
    [][\A i \in 1 .. Len(tasks) :
          tasks[i].status = "Completed" =>
             /\ i <= Len(tasks')
             /\ tasks'[i].status = "Completed"
             /\ tasks'[i].completed_at = tasks[i].completed_at
             /\ ~(last'.op = "complete" /\ last'.id = i)]_vars

\* a task completed at an earlier time, and another task completed after it
C4_LaterCompletionSeen ==
    /\ last.op = "complete"
    /\ last.err = ""
    /\ \E i \in 1 .. Len(tasks) :
          /\ i # last.id
          /\ tasks[i].status = "Completed"
          /\ tasks[i].completed_at # Some(now_iso)

\* an ISO text that sorts before another
TextBefore(a, b) ==
    \/ DateBefore(a, b)
    \/ a.y = b.y /\ a.mo = b.mo /\ a.d = b.d /\ a.sec < b.sec

\* C5: completing a Daily/Weekly task whose due_at is absent, empty or not an
\* ISO timestamp raises nothing, sets that task Completed, logs the session
\* when positive minutes are given, and inserts no task.
C5_BadDueCompletesWithoutSuccessor ==
    [][(/\ last'.op = "complete"
        /\ last'.id \in 1 .. Len(tasks)
        /\ tasks[last'.id].recurrence \in {"Daily", "Weekly"}
        /\ ~ValidDue(tasks[last'.id].due_at)) =>
          /\ last'.err = ""
          /\ Len(tasks') = Len(tasks)
          /\ tasks'[last'.id].status = "Completed"
          /\ tasks'[last'.id].completed_at = Some(now_iso)
          /\ \A i \in 1 .. Len(tasks) : i # last'.id => tasks'[i] = tasks[i]
          /\ IF last'.mins # None /\ last'.mins[1] > 0
             THEN sessions' = Append(sessions,
                      [task_id |-> last'.id,
                       start_time |-> now_iso,
                       end_time |-> now_iso,
                       duration_minutes |-> last'.mins[1] * UnitsPerMin])
             ELSE sessions' = sessions]_vars

\* a Weekly task with an unreadable due_at was completed with 60 minutes
\* logged, and the table still holds one row
C5_BadDueCompletedSeen ==
    /\ last.op = "complete"
    /\ last.err = ""
    /\ last.mins = Some(60)
    /\ Len(tasks) = 1
    /\ tasks[1].recurrence = "Weekly"
    /\ tasks[1].due_at = Some(BadText)
    /\ tasks[1].status = "Completed"
    /\ Len(sessions) = 1

\* C6: pom_stop(True) with a running timer clears the timer and appends one
\* session: of the timer's task, from the timer's start to now (never
\* before the start), lasting max(1 minute, now - start); a timer stopped
\* after 0 seconds gives 1 minute.
C6_StopAndSaveRecordsSession ==
    [][(last'.op = "pom_stop_save" /\ pom_task # None /\ pom_start_at # None) =>
          LET s == sessions'[Len(sessions')]
              elapsed == clock - ToUnits(fromisoformat(pom_start_at[1])[1])
          IN  /\ pom_task' = None
              /\ pom_start_at' = None
              /\ Len(sessions') = Len(sessions) + 1
              /\ SubSeq(sessions', 1, Len(sessions)) = sessions
              /\ s.task_id = pom_task[1]
              /\ s.start_time = pom_start_at[1]
              /\ s.end_time = now_iso
              /\ ~TextBefore(s.end_time, s.start_time)
              /\ s.duration_minutes =
                    IF elapsed >= UnitsPerMin THEN elapsed ELSE UnitsPerMin
              /\ elapsed = 0 => s.duration_minutes = UnitsPerMin]_vars

\* a timer stopped at the very instant it was started left a session of
\* one minute
C6_ZeroSecondTimerSeen ==
    /\ last.op = "pom_stop_save"
    /\ pom_task = None
    /\ sessions # << >>
    /\ datetime_now.sub = 0
    /\ sessions[Len(sessions)].task_id = last.id
    /\ sessions[Len(sessions)].start_time = now_iso
    /\ sessions[Len(sessions)].end_time = now_iso
    /\ sessions[Len(sessions)].duration_minutes = UnitsPerMin

\* C7: the sessions only grow, by one session appended at a time, and only
\* in a complete that found its task and was given positive minutes, or in
\* a pom_stop(True) that found a running timer; every other call or handler
\* leaves them as they are.
C7_SessionsAppendOnly ==
    [][/\ Len(sessions') \in {Len(sessions), Len(sessions) + 1}
       /\ SubSeq(sessions', 1, Len(sessions)) = sessions
       /\ sessions' # sessions =>
            \/ /\ last'.op = "complete"
               /\ last'.err = ""
               /\ last'.mins # None
               /\ last'.mins[1] > 0
            \/ /\ last'.op = "pom_stop_save"
               /\ pom_task # None
               /\ pom_start_at # None]_vars

\* a session logged by complete, then one saved by the timer
C7_BothSourcesSeen ==
    /\ Len(sessions) = 2
    /\ last.op = "pom_stop_save"
    /\ sessions[1].start_time = sessions[1].end_time
    /\ sessions[1].duration_minutes = 60 * UnitsPerMin
    /\ sessions[2].task_id = last.id

\* C8: complete with a task_id that names no task ends in an error and
\* writes nothing: tasks and sessions are as before, also when positive
\* minutes were passed.
C8_UnknownIdFailsAndWritesNothing ==
    [][(last'.op = "complete" /\ last'.id \notin 1 .. Len(tasks)) =>
          /\ last'.err # ""
          /\ tasks' = tasks
          /\ sessions' = sessions]_vars

\* complete was called with 60 minutes for an id one past the last row
C8_UnknownIdSeen ==
    /\ last.op = "complete"
    /\ last.id = Len(tasks) + 1
    /\ last.mins = Some(60)
    /\ last.err = "IndexError"
    /\ sessions = << >>

\* v tenths is r = r.n / r.d rounded to one decimal
IsRounded1(v, r) ==
    LET diff == 10 * r.n - v * r.d
    IN  2 * (IF diff < 0 THEN 0 - diff ELSE diff) <= r.d

\* the sessions of the tasks of category c
OwnedBy(c) ==
    {i \in 1 .. Len(sessions) :
        /\ sessions[i].task_id \in 1 .. Len(tasks)
        /\ tasks[sessions[i].task_id].category = c}

\* the mean duration, in minutes, of the sessions I
MeanOf(I) ==
    Rat(SumOver(I, [i \in I |-> sessions[i].duration_minutes]),
        Cardinality(I) * UnitsPerMin)

\* the categories that have sessions
CatsWithSessions ==
    {tasks[sessions[i].task_id].category :
        i \in {j \in 1 .. Len(sessions) : sessions[j].task_id \in 1 .. Len(tasks)}}

\* the mean of the categories' means
MeanOfMeans ==
    LET tot == RatSumOver(CatsWithSessions, [c \in CatsWithSessions |-> MeanOf(OwnedBy(c))])
    IN  Rat(tot.n, tot.d * Cardinality(CatsWithSessions))

\* categories asked about: with sessions or without, blank, padded
ProbeCats == { <<"W">>, <<"C">>, << >>, <<" ", "C">>, <<"X">> }

\* C9: predict_time(cat) is the mean duration of the sessions of the tasks
\* of that category, rounded to one decimal, when there are any; else the
\* unweighted mean of the categories' means, rounded, when any category has
\* sessions; else 30.0.  A task added for category W while there are no
\* sessions gets 30.0, and one added when the only session is 60 minutes on
\* a task of category W gets 60.0.
C9_PredictFollowsHistory ==
    /\ \A c \in ProbeCats :
          IF OwnedBy(c) # {} THEN IsRounded1(predict_time(c), MeanOf(OwnedBy(c)))
          ELSE IF CatsWithSessions # {} THEN IsRounded1(predict_time(c), MeanOfMeans)
          ELSE predict_time(c) = 300
    /\ (last.op = "add" /\ last.err = "" /\ tasks[last.id].category = <<"W">>) =>
          /\ sessions = << >> => tasks[last.id].predicted_minutes = 300
          /\ (/\ Len(sessions) = 1
              /\ sessions[1].duration_minutes = 60 * UnitsPerMin
              /\ tasks[sessions[1].task_id].category = <<"W">>)
                => tasks[last.id].predicted_minutes = 600

\* two sessions of 60 and 480 minutes on W and one of 60 on C: W is
\* predicted 270.0 and a category without sessions 165.0
C9_TwoCategoriesSeen ==
    /\ Len(sessions) = 3
    /\ Cardinality(OwnedBy(<<"W">>)) = 2
    /\ Cardinality(OwnedBy(<<"C">>)) = 1
    /\ predict_time(<<"W">>) = 2700
    /\ predict_time(<<"C">>) = 600
    /\ predict_time(<<"X">>) = 1650

\* the dates on which sessions started
SessionDates ==
    {[y |-> sessions[i].start_time.y, mo |-> sessions[i].start_time.mo,
      d |-> sessions[i].start_time.d] : i \in 1 .. Len(sessions)}

\* the duration, in clock units, of the sessions started on date dd
TotalOn(dd) ==
    LET I == {i \in 1 .. Len(sessions) :
                 /\ sessions[i].start_time.y = dd.y
                 /\ sessions[i].start_time.mo = dd.mo
                 /\ sessions[i].start_time.d = dd.d}
    IN  SumOver(I, [i \in I |-> sessions[i].duration_minutes])

\* C10: daily_scores() has one row per date on which a session started, the
\* most recent date first; a row's score is min(total minutes / 240 * 100,
\* 120) of that date's summed durations, rounded to one decimal, so never
\* above 120 or below 0 (480 minutes give 120.0, 120 minutes 50.0); without
\* sessions it is empty.
C10_DailyScores ==
    LET ds == daily_scores
    IN  /\ sessions = << >> => ds = << >>
        /\ Len(ds) = Cardinality(SessionDates)
        /\ {ds[k].date : k \in 1 .. Len(ds)} = SessionDates
        /\ \A k \in 1 .. Len(ds) - 1 : DateBefore(ds[k + 1].date, ds[k].date)
        /\ \A k \in 1 .. Len(ds) :
              LET u == TotalOn(ds[k].date)
                  raw == Rat(u * 100, 240 * UnitsPerMin)
              IN  /\ ds[k].duration_minutes = u
                  /\ IsRounded1(ds[k].score,
                                IF raw.n > 120 * raw.d THEN Rat(120, 1) ELSE raw)
                  /\ ds[k].score >= 0
                  /\ ds[k].score <= 1200
                  /\ u = 480 * UnitsPerMin => ds[k].score = 1200
                  /\ u = 120 * UnitsPerMin => ds[k].score = 500

\* sessions on two dates: 60 minutes on the later one (25.0), 480 on the
\* earlier one (capped at 120.0)
C10_TwoDatesCappedSeen ==
    /\ Len(daily_scores) = 2
    /\ daily_scores[1].date = [y |-> 2024, mo |-> 2, d |-> 29]
    /\ daily_scores[1].score = 250
    /\ daily_scores[2].date = [y |-> 2024, mo |-> 2, d |-> 28]
    /\ daily_scores[2].score = 1200

====
